---- MODULE Spec2Model ----
(***************************************************************************)
(* Model of the plugin driver's child process supervisor                   *)
(* (drivers/rust/driver/src/child_process.rs) and of the CSV content       *)
(* plugin's protocol verbs (plugins/csv/src/main.rs).                      *)
(***************************************************************************)
EXTENDS Integers, Sequences, FiniteSets, TLC

VARIABLES
  \* ---- the child process and the operating system ----
  childPid,      \* child.id()
  hasStdout,     \* child.stdout is Some
  hasStderr,     \* child.stderr is Some
  outLines,      \* every line the child writes to its stdout, in order
  outPos,        \* how many of them the stdout drain task has read
  errLines,      \* number of lines the child writes to its stderr
  errPos,        \* how many of them the stderr drain task has read
  childAlive,    \* the child has not exited (its streams are open)
  procTable,     \* process ids the OS process table holds
  signalled,     \* pid -> number of Signal::Term delivered by kill()
  now,           \* milliseconds since new() was called
  \* ---- ChildPluginProcess::new ----
  callerPc,      \* "new" | "recv" | "returned"
  result,        \* what new() returned
  chan,          \* the mpsc channel's queue
  txAlive,       \* the Sender has not been dropped
  rxAlive,       \* the Receiver has not been dropped
  outTask,       \* stdout drain task: "unspawned" | "running" | "ended"
  startup_read,  \* the stdout drain task's flag
  errTask,       \* stderr drain task: "unspawned" | "running" | "ended"
  \* ---- observation of the run ----
  sends,         \* number of tx.send calls made
  sentAt,        \* time of the first tx.send, -1 before it
  killCalls,     \* number of kill() calls that returned
  \* ---- the CSV plugin: one request and its response for each verb ----
  cmpRequest,    \* proto::CompareContentsRequest
  cmpResponse,   \* what compare_contents answered
  \* ---- value marshalling ----
  jsonValue,     \* a serde_json::Value
  wireValue,     \* to_value(jsonValue), a prost_types::Value
  decoded,       \* from_value(wireValue)
  \* ---- configureContents and generateContent ----
  cfgRequest,    \* proto::ConfigureContentsRequest
  cfgResponse,   \* what configure_contents answered
  genRequest,    \* proto::GenerateContentRequest
  genResponse    \* what generate_content answered

supVars == <<childPid, hasStdout, hasStderr, outLines, outPos, errLines, errPos,
             childAlive, procTable, signalled, now, callerPc, result, chan,
             txAlive, rxAlive, outTask, startup_read, errTask, sends, sentAt,
             killCalls>>

cmpVars == <<cmpRequest, cmpResponse>>
marVars == <<jsonValue, wireValue, decoded>>
cfgVars == <<cfgRequest, cfgResponse>>
genVars == <<genRequest, genResponse>>
pluginVars == <<cmpVars, marVars, cfgVars, genVars>>

vars == <<supVars, pluginVars>>

(***************************************************************************)
(* Bounds of the model and constants of the program.                       *)
(***************************************************************************)
MaxLines == 2          \* stdout lines a child writes
MaxErrLines == 1       \* stderr lines a child writes
MaxKills == 2          \* kill() calls on a handle
TicksPerTimeout == 2   \* clock steps within the handshake wait
TimeoutMs == 500       \* Duration::from_millis(500)
MaxPort == 65535       \* port: u16
MaxCols == 2           \* fields of a CSV record
MaxRows == 2           \* records of an actual CSV body
MaxDepth == 1          \* nesting of lists and maps in a parameter value

TickMs == TimeoutMs \div TicksPerTimeout
TimeCap == TimeoutMs + TickMs

Pids == {11, 12}
manifest == [name |-> "csv"]

(***************************************************************************)
(* Lines of the child's standard output.  utf8 = FALSE is a line the       *)
(* reader fails to decode; lead is the leading whitespace trim() removes.  *)
(***************************************************************************)
TextLine == [utf8 |-> TRUE, lead |-> 0, brace |-> FALSE, wellFormed |-> FALSE,
             hasPort |-> FALSE, port |-> 0, hasKey |-> FALSE, key |-> ""]
BadUtf8Line == [TextLine EXCEPT !.utf8 = FALSE]
Handshake(p, k, lead) ==
  [utf8 |-> TRUE, lead |-> lead, brace |-> TRUE, wellFormed |-> TRUE,
   hasPort |-> TRUE, port |-> p, hasKey |-> TRUE, key |-> k]
StdoutLine ==
  { TextLine, BadUtf8Line,
    Handshake(4000, "abc", 1),                          \* ' {"port":4000,"serverKey":"abc"}'
    Handshake(4001, "xyz", 0),                          \* '{"port":4001,"serverKey":"xyz"}'
    Handshake(70000, "abc", 0),                         \* port does not fit u16
    [Handshake(4000, "", 0) EXCEPT !.hasKey = FALSE] }  \* '{"port":4000}'

SeqsUpTo(S, n) == UNION { [1..k -> S] : k \in 0..n }

\* line.trim(): the line without its surrounding whitespace
trim_none(line) == line
trim(line) == [line EXCEPT !.lead = 0]
\* line.starts_with("{")
starts_with_brace(line) == line.lead = 0 /\ line.brace

\* serde_json::from_str::<RunningPluginInfo>(line)
from_str(line) ==
  IF line.brace /\ line.wellFormed /\ line.hasPort /\ line.port \in 0..MaxPort
     /\ line.hasKey
  THEN [ok |-> TRUE, plugin_info |-> [port |-> line.port, server_key |-> line.key]]
  ELSE [ok |-> FALSE]

NoResult == [kind |-> "none"]
Failure(e) == [kind |-> "error", error |-> e]
\* ChildPluginProcess { child_pid, manifest, plugin_info }
ChildPluginProcess(pid, m, info) ==
  [kind |-> "handle", child_pid |-> pid, manifest |-> m, plugin_info |-> info]

\* ChildPluginProcess::port
port(self) == self.plugin_info.port

(***************************************************************************)
(* Initial state: a spawned child, new() not yet called.                   *)
(***************************************************************************)
SupInit ==
  /\ childPid \in Pids
  /\ hasStdout \in BOOLEAN
  /\ hasStderr \in BOOLEAN
  /\ outLines \in SeqsUpTo(StdoutLine, MaxLines)
  /\ errLines \in 0..MaxErrLines
  /\ (~hasStdout => outLines = <<>>)
  /\ (~hasStderr => errLines = 0)
  /\ outPos = 0
  /\ errPos = 0
  /\ childAlive = TRUE
  /\ procTable = Pids
  /\ signalled = [p \in Pids |-> 0]
  /\ now = 0
  /\ callerPc = "new"
  /\ result = NoResult
  /\ chan = <<>>
  /\ txAlive = TRUE
  /\ rxAlive = TRUE
  /\ outTask = "unspawned"
  /\ startup_read = FALSE
  /\ errTask = "unspawned"
  /\ sends = 0
  /\ sentAt = -1
  /\ killCalls = 0

childVars == <<childPid, hasStdout, hasStderr, outLines, errLines>>
osVars == <<childAlive, procTable, signalled>>
killVars == <<killCalls>>

(***************************************************************************)
(* ChildPluginProcess::new up to the wait on the channel: the stream       *)
(* handles are taken, the two drain tasks are spawned.                     *)
(***************************************************************************)
New ==
  /\ callerPc = "new"
  /\ IF ~hasStdout
     THEN /\ result' = Failure("Could not get the child process standard output stream")
          /\ callerPc' = "returned"
          /\ rxAlive' = FALSE
          /\ txAlive' = FALSE
          /\ UNCHANGED <<outTask, errTask>>
     ELSE IF ~hasStderr
     THEN /\ result' = Failure("Could not get the child process standard error stream")
          /\ callerPc' = "returned"
          /\ rxAlive' = FALSE
          /\ txAlive' = FALSE
          /\ UNCHANGED <<outTask, errTask>>
     ELSE /\ outTask' = "running"
          /\ errTask' = "running"
          /\ callerPc' = "recv"
          /\ UNCHANGED <<result, rxAlive, txAlive>>
  /\ UNCHANGED <<pluginVars, childVars, osVars, killVars, outPos, errPos, now, chan,
                 startup_read, sends, sentAt>>

(***************************************************************************)
(* The stdout drain task (the first spawn_blocking closure).               *)
(***************************************************************************)
\* if !startup_read { let line = line.trim(); if line.starts_with("{") { ..
is_candidate_every_line(flag, line) == starts_with_brace(trim(line))
is_candidate(flag, line) == ~flag /\ starts_with_brace(trim(line))

\* the value handed to tx.send for a candidate line
startup_message(line) ==
  LET parsed == from_str(trim(line))
  IN  IF parsed.ok
      THEN [ok |-> TRUE,
            value |-> ChildPluginProcess(childPid, manifest, parsed.plugin_info)]
      ELSE [ok |-> FALSE, value |-> Failure("Failed to read startup info from plugin")]

\* tx.send(..): fails when the receiver has been dropped
send(queue, receiver_alive, message) ==
  IF receiver_alive THEN [ok |-> TRUE, queue |-> Append(queue, message)]
                    ELSE [ok |-> FALSE, queue |-> queue]

\* .unwrap_or_default(): the closure goes on whatever send returned
unwrap_or_panic(sent) == IF sent.ok THEN "running" ELSE "panicked"
unwrap_or_default(sent) == "running"

\* one iteration of `for line in reader.lines()`
StdoutTaskLine ==
  /\ outTask = "running"
  /\ outPos < Len(outLines)
  /\ outPos' = outPos + 1
  /\ LET line == outLines[outPos + 1]
     IN  IF line.utf8 /\ is_candidate(startup_read, line)
         THEN LET sent == send(chan, rxAlive, startup_message(line))
              IN  /\ startup_read' = TRUE
                  /\ chan' = sent.queue
                  /\ outTask' = unwrap_or_default(sent)
                  /\ sends' = sends + 1
                  /\ sentAt' = IF sentAt = -1 THEN now ELSE sentAt
         ELSE UNCHANGED <<startup_read, chan, outTask, sends, sentAt>>
  /\ UNCHANGED <<pluginVars, childVars, osVars, killVars, errPos, now, callerPc, result,
                 txAlive, rxAlive, errTask>>

\* reader.lines() ends when the stream is closed: the closure returns and
\* drops tx
StdoutTaskEnd ==
  /\ outTask = "running"
  /\ outPos = Len(outLines)
  /\ ~childAlive
  /\ outTask' = "ended"
  /\ txAlive' = FALSE
  /\ UNCHANGED <<pluginVars, childVars, osVars, killVars, outPos, errPos, now, callerPc,
                 result, chan, rxAlive, startup_read, errTask, sends, sentAt>>

(***************************************************************************)
(* The stderr drain task (the second spawn_blocking closure).              *)
(***************************************************************************)
StderrTaskLine ==
  /\ errTask = "running"
  /\ errPos < errLines
  /\ errPos' = errPos + 1
  /\ UNCHANGED <<pluginVars, childVars, osVars, killVars, outPos, now, callerPc, result,
                 chan, txAlive, rxAlive, outTask, startup_read, errTask, sends,
                 sentAt>>

StderrTaskEnd ==
  /\ errTask = "running"
  /\ errPos = errLines
  /\ ~childAlive
  /\ errTask' = "ended"
  /\ UNCHANGED <<pluginVars, childVars, osVars, killVars, outPos, errPos, now, callerPc,
                 result, chan, txAlive, rxAlive, outTask, startup_read, sends,
                 sentAt>>

(***************************************************************************)
(* rx.recv_timeout(Duration::from_millis(500)) and the match on it.        *)
(***************************************************************************)
\* Ok(result) => result
received(message) == message.value

TimeoutFailure ==
  Failure("Plugin process did not output the correct startup message in 500 ms")

RecvMessage ==
  /\ callerPc = "recv"
  /\ chan # <<>>
  /\ result' = received(Head(chan))
  /\ chan' = Tail(chan)
  /\ callerPc' = "returned"
  /\ rxAlive' = FALSE
  /\ UNCHANGED <<pluginVars, childVars, osVars, killVars, outPos, errPos, now, txAlive,
                 outTask, startup_read, errTask, sends, sentAt>>

\* Err(RecvTimeoutError::Timeout): the queue stayed empty for 500 ms
deadline_passed_never(t) == FALSE
deadline_passed(t) == t >= TimeoutMs

RecvTimeout ==
  /\ callerPc = "recv"
  /\ chan = <<>>
  /\ deadline_passed(now)
  /\ result' = TimeoutFailure
  /\ callerPc' = "returned"
  /\ rxAlive' = FALSE
  /\ UNCHANGED <<pluginVars, childVars, osVars, killVars, outPos, errPos, now, chan, txAlive,
                 outTask, startup_read, errTask, sends, sentAt>>

\* Err(RecvTimeoutError::Disconnected): the queue is empty and tx is dropped
RecvDisconnected ==
  /\ callerPc = "recv"
  /\ chan = <<>>
  /\ ~txAlive
  /\ result' = TimeoutFailure
  /\ callerPc' = "returned"
  /\ rxAlive' = FALSE
  /\ UNCHANGED <<pluginVars, childVars, osVars, killVars, outPos, errPos, now, chan, txAlive,
                 outTask, startup_read, errTask, sends, sentAt>>

\* Time passes.  The wait of recv_timeout ends at its deadline: the clock
\* does not pass the deadline while the caller is still in the wait.
Tick ==
  /\ callerPc # "new"
  /\ now < TimeCap
  /\ ~(callerPc = "recv" /\ deadline_passed(now))
  /\ now' = IF callerPc = "recv" /\ now + TickMs > TimeoutMs
             THEN TimeoutMs
             ELSE now + TickMs
  /\ UNCHANGED <<pluginVars, childVars, osVars, killVars, outPos, errPos, callerPc, result,
                 chan, txAlive, rxAlive, outTask, startup_read, errTask, sends,
                 sentAt>>

(***************************************************************************)
(* The operating system: the child exits (closing its streams, leaving     *)
(* the process table); its process id is given to a new process.           *)
(***************************************************************************)
ChildExit ==
  /\ childAlive
  /\ childAlive' = FALSE
  /\ procTable' = procTable \ {childPid}
  /\ UNCHANGED <<pluginVars, childVars, killVars, signalled, outPos, errPos, now, callerPc,
                 result, chan, txAlive, rxAlive, outTask, startup_read, errTask,
                 sends, sentAt>>

PidRecycled ==
  /\ ~childAlive
  /\ childPid \notin procTable
  /\ procTable' = procTable \cup {childPid}
  /\ UNCHANGED <<pluginVars, childVars, killVars, childAlive, signalled, outPos, errPos, now,
                 callerPc, result, chan, txAlive, rxAlive, outTask, startup_read,
                 errTask, sends, sentAt>>

(***************************************************************************)
(* ChildPluginProcess::kill                                                *)
(***************************************************************************)
\* let s = System::new(): the process table as it is at the call
System_new == procTable
\* s.process(self.child_pid as Pid)
process(s, pid) == IF pid \in s THEN {pid} ELSE {}
\* the processes kill() sends Signal::Term to
kill_targets_unchecked(self, s) == {self.child_pid}
kill_targets(self, s) == process(s, self.child_pid)

Kill ==
  /\ callerPc = "returned"
  /\ result.kind = "handle"
  /\ killCalls < MaxKills
  /\ LET targets == kill_targets(result, System_new)
     IN  signalled' = [p \in Pids |-> IF p \in targets THEN signalled[p] + 1
                                                      ELSE signalled[p]]
  /\ killCalls' = killCalls + 1
  /\ UNCHANGED <<pluginVars, childVars, childAlive, procTable, outPos, errPos, now, callerPc,
                 result, chan, txAlive, rxAlive, outTask, startup_read, errTask,
                 sends, sentAt>>

SupNext ==
  \/ New
  \/ StdoutTaskLine
  \/ StdoutTaskEnd
  \/ StderrTaskLine
  \/ StderrTaskEnd
  \/ RecvMessage
  \/ RecvTimeout
  \/ RecvDisconnected
  \/ Tick
  \/ ChildExit
  \/ PidRecycled
  \/ Kill

(***************************************************************************)
(* The CSV plugin.  A CSV body is modelled by the records the csv reader   *)
(* yields for it, a record by its fields.                                  *)
(***************************************************************************)
Fields == {"A", "1"}
Numeric == {"1"}
Records == UNION { [1..k -> Fields] : k \in 1..MaxCols }
None == [some |-> FALSE]
Some(v) == [some |-> TRUE, value |-> v]

Aborted(message) == [kind |-> "aborted", message |-> message]
Panicked == [kind |-> "panic"]
Answer(value) == [kind |-> "ok", value |-> value]
NoResponse == [kind |-> "none"]

\* format!("column:{}", index)
column_path(index) == <<"column", index>>

RECURSIVE Concat(_, _)
\* the concatenation of f[1], ..., f[n]
Concat(f, n) == IF n = 0 THEN <<>> ELSE Concat(f, n - 1) \o f[n]

(***************************************************************************)
(* Value marshalling.  A serde_json number is a PosInt (u64), a NegInt (a  *)
(* negative i64) or a Float (f64); equality of numbers tells the three     *)
(* apart.  An f64 is modelled by twice its value, so that 1.5 is 3.        *)
(***************************************************************************)
Null == [t |-> "null"]
Bool(b) == [t |-> "bool", b |-> b]
Number(repr, v) == [t |-> "number", n |-> [repr |-> repr, v |-> v]]
String(str) == [t |-> "string", s |-> str]
Array(items) == [t |-> "array", items |-> items]
Object(members) == [t |-> "object", members |-> members]

Scalars ==
  { Null, Bool(TRUE), Bool(FALSE), Number("PosInt", 1), Number("NegInt", -1),
    Number("Float", 3), Number("Float", 2), String("s") }
Keys == {"x", "y"}
RECURSIVE Values(_)
\* the values nested at most `depth` deep
Values(depth) ==
  IF depth = 0
  THEN Scalars
  ELSE LET inner == Values(depth - 1)
       IN  Scalars
           \cup { Array(items) : items \in SeqsUpTo(inner, 2) }
           \cup { Object(members) :
                    members \in UNION { [ks -> inner] : ks \in SUBSET Keys } }

\* n.as_u64() as f64, n.as_i64() as f64, n.as_f64()
number_as_f64_unsigned_only(n) ==
  CASE n.repr = "PosInt" -> 2 * n.v
    [] n.repr = "NegInt" -> 0
    [] OTHER -> n.v
number_as_f64(n) ==
  CASE n.repr = "PosInt" -> 2 * n.v
    [] n.repr = "NegInt" -> 2 * n.v
    [] OTHER -> n.v

RECURSIVE to_value(_)
to_value(val) ==
  CASE val.t = "null" -> [kind |-> "NullValue", nul |-> 0]
    [] val.t = "bool" -> [kind |-> "BoolValue", b |-> val.b]
    [] val.t = "number" -> [kind |-> "NumberValue", f |-> number_as_f64(val.n)]
    [] val.t = "string" -> [kind |-> "StringValue", s |-> val.s]
    [] val.t = "array" ->
         [kind |-> "ListValue",
          values |-> [i \in 1..Len(val.items) |-> to_value(val.items[i])]]
    [] val.t = "object" ->
         [kind |-> "StructValue",
          fields |-> [k \in DOMAIN val.members |-> to_value(val.members[k])]]

RECURSIVE from_value(_)
from_value(w) ==
  CASE w.kind = "NullValue" -> Null
    [] w.kind = "NumberValue" -> Number("Float", w.f)     \* json!(*n)
    [] w.kind = "StringValue" -> String(w.s)
    [] w.kind = "BoolValue" -> Bool(w.b)
    [] w.kind = "StructValue" ->
         Object([k \in DOMAIN w.fields |-> from_value(w.fields[k])])
    [] w.kind = "ListValue" ->
         Array([i \in 1..Len(w.values) |-> from_value(w.values[i])])

MarIdle == jsonValue = NoResponse /\ wireValue = NoResponse /\ decoded = NoResponse

MarshalInit ==
  /\ jsonValue \in Values(MaxDepth)
  /\ wireValue = NoResponse
  /\ decoded = NoResponse

ToValue ==
  /\ wireValue = NoResponse
  /\ jsonValue # NoResponse
  /\ wireValue' = to_value(jsonValue)
  /\ UNCHANGED <<supVars, cmpVars, cfgVars, genVars, jsonValue, decoded>>

FromValue ==
  /\ wireValue # NoResponse
  /\ decoded = NoResponse
  /\ decoded' = from_value(wireValue)
  /\ UNCHANGED <<supVars, cmpVars, cfgVars, genVars, jsonValue, wireValue>>

(***************************************************************************)
(* Matching rules.  MatchingRule::from_json knows a rule by the name in    *)
(* its "match" attribute; matches_with applies one rule to two strings.    *)
(***************************************************************************)
KnownRuleTypes == {"equality", "number", "type"}
WireRule(type) == [type |-> type, values |-> Some("{}")]

\* MatchingRule::from_json(&Value::Object(map))
MatchingRule_from_json(type) ==
  IF type \in KnownRuleTypes THEN Some(type) ELSE None

\* expected_item.matches_with(item, rule, false).is_err()
rule_fails(expected_item, item, rule) ==
  CASE rule = "equality" -> expected_item # item
    [] rule = "number" -> item \notin Numeric
    [] OTHER -> FALSE

\* the closure of request.rules.iter().map(..): the RuleList of one path,
\* or a panic when an unwrap fails
rule_list(wire) ==
  IF \E i \in 1..Len(wire) :
       \/ ~wire[i].values.some
       \/ ~MatchingRule_from_json(wire[i].type).some
  THEN Panicked
  ELSE Answer([i \in 1..Len(wire) |-> MatchingRule_from_json(wire[i].type).value])

(***************************************************************************)
(* compare_row and compare_contents                                        *)
(***************************************************************************)
\* expected_row.get(index).unwrap_or_default()
expected_item_next_column(expected_row, index) ==
  IF index + 1 < Len(expected_row) THEN expected_row[index + 2] ELSE ""
expected_item(expected_row, index) ==
  IF index < Len(expected_row) THEN expected_row[index + 1] ELSE ""

ContentMismatch(expected, actual, mismatch, path) ==
  [expected |-> expected, actual |-> actual, mismatch |-> mismatch,
   path |-> path, diff |-> ""]

\* the mismatches compare_row pushes for the field at `index`
compare_field(expected_row, actual_row, line, index, rules) ==
  LET item == actual_row[index + 1]
      expected == expected_item(expected_row, index)
      path == <<"row", line, "column", index>>
  IN  IF column_path(index) \in DOMAIN rules
      THEN LET list == rules[column_path(index)]
               each == [r \in 1..Len(list) |->
                          IF rule_fails(expected, item, list[r])
                          THEN << ContentMismatch(Some(expected), Some(item),
                                                  <<"rule", list[r]>>, path) >>
                          ELSE <<>>]
           IN  Concat(each, Len(list))
      ELSE IF item # expected
      THEN << ContentMismatch(Some(expected), Some(item),
                              <<"Expected column", index, "value to equal",
                                expected, "but got", item>>, path) >>
      ELSE <<>>

compare_row(expected_row, actual_row, line, rules) ==
  Concat([i \in 1..Len(actual_row) |->
            compare_field(expected_row, actual_row, line, i - 1, rules)],
         Len(actual_row))

\* the column count check on the first records
column_count_ignoring_policy(expected_len, actual_len, allow_unexpected_keys) ==
  IF actual_len # expected_len
  THEN << ContentMismatch(Some(<<expected_len, "columns">>),
                          Some(<<actual_len, "columns">>),
                          <<"Expected", expected_len, "columns, but got", actual_len>>,
                          <<>>) >>
  ELSE <<>>
column_count(expected_len, actual_len, allow_unexpected_keys) ==
  IF actual_len < expected_len
  THEN << ContentMismatch(Some(<<expected_len, "columns">>),
                          Some(<<actual_len, "columns">>),
                          <<"Expected", expected_len, "columns, but got", actual_len>>,
                          <<>>) >>
  ELSE IF actual_len > expected_len /\ ~allow_unexpected_keys
  THEN << ContentMismatch(Some(<<expected_len, "columns">>),
                          Some(<<actual_len, "columns">>),
                          <<"Expected at least", expected_len, "columns, but got",
                            actual_len>>,
                          <<>>) >>
  ELSE <<>>

\* the csv reader is not flexible: a record whose length differs from the
\* first record's is an error
unequal_lengths(records) ==
  \E k \in 2..Len(records) : Len(records[k]) # Len(records[1])

compare_contents(expected, actual, allow_unexpected_keys, rules) ==
  IF expected = <<>> \/ actual = <<>>
  THEN Aborted("Could not read the expected content")
  ELSE IF unequal_lengths(actual)
  THEN Aborted("found record with unequal length")
  ELSE LET expected_row == expected[1]
       IN  Answer(column_count(Len(expected_row), Len(actual[1]),
                               allow_unexpected_keys)
                  \o Concat([k \in 1..Len(actual) |->
                               compare_row(expected_row, actual[k], k, rules)],
                            Len(actual)))

\* CsvPactPlugin::compare_contents
compare_contents_handler(request) ==
  CASE request.expected.some /\ request.actual.some ->
         IF \E path \in DOMAIN request.rules :
              rule_list(request.rules[path]).kind = "panic"
         THEN Panicked
         ELSE compare_contents(
                request.expected.value, request.actual.value,
                request.allow_unexpected_keys,
                [path \in DOMAIN request.rules |-> rule_list(request.rules[path]).value])
    [] ~request.expected.some /\ request.actual.some ->
         Answer(<< ContentMismatch(None, Some(request.actual.value),
                                   "Expected no CSV content, but got some", <<>>) >>)
    [] request.expected.some /\ ~request.actual.some ->
         Answer(<< ContentMismatch(Some(request.expected.value), None,
                                   "Expected CSV content, but did not get any", <<>>) >>)
    [] OTHER -> Answer(<<>>)

\* the rule maps of the requests
Path0 == column_path(0)
Path1 == column_path(1)
RuleMaps ==
  { <<>>,
    Path0 :> << WireRule("number") >>,
    Path1 :> << WireRule("equality"), WireRule("number") >>,
    Path0 :> <<>>,
    Path1 :> << WireRule("bogus") >>,
    (Path0 :> << WireRule("number") >>) @@ (Path1 :> << WireRule("bogus") >>),
    Path0 :> << [WireRule("number") EXCEPT !.values = None] >> }

\* an expected body: a template record, possibly followed by another record
ExpectedBodies ==
  { <<>> } \cup { <<t>> : t \in Records } \cup { <<t, <<"Z">> >> : t \in Records }
ActualBodies == SeqsUpTo(Records, MaxRows)

CompareRequests ==
  [expected : {None} \cup { Some(b) : b \in ExpectedBodies },
   actual : {None} \cup { Some(b) : b \in ActualBodies },
   allow_unexpected_keys : BOOLEAN,
   rules : RuleMaps]

CmpIdle == cmpRequest = NoResponse /\ cmpResponse = NoResponse

CompareInit ==
  /\ cmpRequest \in CompareRequests
  /\ cmpResponse = NoResponse

CompareContents ==
  /\ cmpResponse = NoResponse
  /\ cmpRequest # NoResponse
  /\ cmpResponse' = compare_contents_handler(cmpRequest)
  /\ UNCHANGED <<supVars, marVars, cfgVars, genVars, cmpRequest>>

(***************************************************************************)
(* Selectors, field expressions and generators.  parse_field and           *)
(* parse_value are the plugin's parser module; Generator::from_map and     *)
(* generate_value are the generator registry.                              *)
(***************************************************************************)
\* parse_field("column:N"): the 1-based column number N
parse_field(key) ==
  IF key[1] = "column" /\ key[2] >= 1 THEN Answer(key[2])
  ELSE Aborted("not a valid field definition")

InvalidExpression == [valid |-> FALSE]
Expression(example, rule, gen) ==
  [valid |-> TRUE, example |-> example, rule |-> rule, gen |-> gen]
\* parse_value(expression): (example value, matching rule, generator)
parse_value(expression) ==
  IF expression.valid
  THEN Answer(<<expression.example, expression.rule, expression.gen>>)
  ELSE Aborted("not a valid value definition")

KnownGeneratorTypes == {"Uuid", "ProviderState"}
NoValues == [k \in {} |-> Null]
UuidGenerator == [name |-> "Uuid", values |-> NoValues]
ProviderStateGenerator ==
  [name |-> "ProviderState", values |-> [k \in {"expression"} |-> String("s")]]
\* Generator::from_map(&gen.type, &values)
Generator_from_map(type, values) ==
  IF type \in KnownGeneratorTypes
  THEN Some([name |-> type, values |-> values])
  ELSE None
\* generator.generate_value(&field.to_string(), &context, &variant_matcher)
\* with the empty context
generate_value(generator, field) ==
  IF generator.name = "Uuid" THEN Answer("generated")
  ELSE Aborted("no value for the expression in the context")

(***************************************************************************)
(* setup_csv_contents                                                      *)
(***************************************************************************)
\* wtr.write_record(record): a record with no byte in it is written as ""
write_record(record) == IF record = <<>> THEN << "" >> ELSE record

\* the wire form of a rule's or generator's parameters
wire_fields(values) == [k \in DOMAIN values |-> to_value(values[k])]

\* format!("column:{}", col) for the key of a configured column
configured_path(col) == column_path(col)

setup_csv_contents(request) ==
  IF ~request.contents_config.some
  THEN Aborted("No config provided to match/generate CSV content")
  ELSE LET fields == request.contents_config.value
       IN  IF \E key \in DOMAIN fields :
                \/ parse_field(key).kind # "ok"
                \/ parse_value(fields[key]).kind # "ok"
           THEN Aborted("Invalid column definition")
           ELSE LET width ==
                      IF DOMAIN fields = {} THEN 0
                      ELSE CHOOSE n \in { parse_field(key).value : key \in DOMAIN fields } :
                             \A key \in DOMAIN fields : parse_field(key).value <= n
                    \* columns[column - 1] = Some(result)
                    columns ==
                      [c \in 1..width |->
                         IF \E key \in DOMAIN fields : parse_field(key).value = c
                         THEN Some(parse_value(
                                fields[CHOOSE key \in DOMAIN fields :
                                         parse_field(key).value = c]).value)
                         ELSE None]
                    column_values ==
                      [c \in 1..width |->
                         IF columns[c].some THEN columns[c].value[1] ELSE ""]
                    \* (col, vals) of columns.iter().enumerate()
                    with_rule == { col \in 0..(width - 1) :
                                     /\ columns[col + 1].some
                                     /\ columns[col + 1].value[2].some }
                    with_gen == { col \in 0..(width - 1) :
                                    /\ columns[col + 1].some
                                    /\ columns[col + 1].value[3].some }
                    rule_at(path) ==
                      columns[(CHOOSE col \in with_rule : configured_path(col) = path) + 1]
                        .value[2].value
                    gen_at(path) ==
                      columns[(CHOOSE col \in with_gen : configured_path(col) = path) + 1]
                        .value[3].value
               IN  Answer(
                     [contents |-> << write_record(column_values) >>,
                      rules |->
                        [path \in { configured_path(col) : col \in with_rule } |->
                           << [type |-> rule_at(path).name,
                               values |-> Some(wire_fields(rule_at(path).values))] >>],
                      generators |->
                        [path \in { configured_path(col) : col \in with_gen } |->
                           [type |-> gen_at(path).name,
                            values |-> Some(wire_fields(gen_at(path).values))]]])

(***************************************************************************)
(* generate_csv_content                                                    *)
(***************************************************************************)
\* the generator built for one entry of request.generators, or the error
\* that ends the call
build_generator(key, gen) ==
  IF parse_field(key).kind # "ok" THEN Aborted("not a valid field definition")
  ELSE IF ~gen.values.some THEN Aborted("Generator values were expected")
  ELSE LET values == [k \in DOMAIN gen.values.value |-> from_value(gen.values.value[k])]
           built == Generator_from_map(gen.type, values)
       IN  IF built.some THEN Answer(built.value)
           ELSE Aborted("Failed to build generator")

\* generators.insert(column, generator): the index the generator is kept under
generator_index_minus_one(column) == column - 1
generator_index(column) == column

generate_csv_content(request) ==
  IF \E key \in DOMAIN request.generators :
       build_generator(key, request.generators[key]).kind # "ok"
  THEN Aborted("Failed to generate CSV contents")
  ELSE
    LET generators ==
          [col \in { generator_index(parse_field(key).value) :
                       key \in DOMAIN request.generators } |->
             build_generator(
               CHOOSE key \in DOMAIN request.generators :
                 generator_index(parse_field(key).value) = col,
               request.generators[
                 CHOOSE key \in DOMAIN request.generators :
                   generator_index(parse_field(key).value) = col]).value]
    IN  IF ~request.contents.some
        THEN Panicked       \* request.get_ref().contents.as_ref().unwrap()
        ELSE
          LET csv_data == request.contents.value
              generated(field, col) ==
                IF col \in DOMAIN generators
                THEN generate_value(generators[col], field)
                ELSE Answer(field)
          IN  IF unequal_lengths(csv_data)
              THEN Aborted("found record with unequal length")
              ELSE IF \E r \in 1..Len(csv_data) : \E c \in 1..Len(csv_data[r]) :
                        generated(csv_data[r][c], c - 1).kind # "ok"
              THEN Aborted("Failed to generate CSV contents")
              ELSE Answer([r \in 1..Len(csv_data) |->
                             write_record([c \in 1..Len(csv_data[r]) |->
                                             generated(csv_data[r][c], c - 1).value])])

RuleOfType == [name |-> "type", values |-> NoValues]
RuleOfNumber == [name |-> "number", values |-> NoValues]
Expressions ==
  { Expression("A", Some(RuleOfType), None),
    Expression("1", Some(RuleOfNumber), Some(UuidGenerator)),
    Expression("A", None, Some(ProviderStateGenerator)),
    InvalidExpression }
Selectors == { column_path(n) : n \in 0..MaxCols } \cup { <<"col", 1>> }
ConfigureRequests ==
  { [contents_config |-> None] } \cup
  { [contents_config |-> Some(fields)] :
      fields \in UNION { [keys -> Expressions] : keys \in SUBSET Selectors } }

WireGenerator(type) == [type |-> type, values |-> Some(NoValues)]
GeneratorMaps ==
  { <<>>,
    Path0 :> WireGenerator("Uuid"),
    Path1 :> WireGenerator("Uuid"),
    column_path(2) :> WireGenerator("Uuid"),
    (Path1 :> WireGenerator("Uuid")) @@ (column_path(2) :> WireGenerator("ProviderState")),
    Path1 :> WireGenerator("Bogus"),
    Path1 :> [WireGenerator("Uuid") EXCEPT !.values = None],
    <<"col", 1>> :> WireGenerator("Uuid") }
GenerateRequests ==
  [contents : {None} \cup { Some(b) : b \in SeqsUpTo(Records, MaxRows) },
   generators : GeneratorMaps]

CfgIdle == cfgRequest = NoResponse /\ cfgResponse = NoResponse
GenIdle == genRequest = NoResponse /\ genResponse = NoResponse

\* CsvPactPlugin::generate_content on a request of the host
GenerateInit ==
  /\ genRequest \in GenerateRequests
  /\ genResponse = NoResponse

GenerateContent ==
  /\ genRequest # NoResponse
  /\ genResponse = NoResponse
  /\ genResponse' = generate_csv_content(genRequest)
  /\ UNCHANGED <<supVars, cmpVars, marVars, cfgVars, genRequest>>

\* CsvPactPlugin::configure_contents
ConfigureInit ==
  /\ cfgRequest \in ConfigureRequests
  /\ cfgResponse = NoResponse

ConfigureContents ==
  /\ cfgRequest # NoResponse
  /\ cfgResponse = NoResponse
  /\ cfgResponse' = setup_csv_contents(cfgRequest)
  /\ UNCHANGED <<supVars, cmpVars, marVars, genVars, cfgRequest>>

\* the host passes the configured template, repeated `rows` times, and the
\* configured generators, unchanged, to CsvPactPlugin::generate_content
GenerateConfigured ==
  /\ cfgResponse.kind = "ok"
  /\ genRequest = NoResponse
  /\ \E rows \in 1..MaxRows :
       LET request == [contents |-> Some([r \in 1..rows |-> cfgResponse.value.contents[1]]),
                       generators |-> cfgResponse.value.generators]
       IN  /\ genRequest' = request
           /\ genResponse' = generate_csv_content(request)
  /\ UNCHANGED <<supVars, cmpVars, marVars, cfgVars>>

(***************************************************************************)
(* Properties of the supervisor.                                           *)
(***************************************************************************)
\* the stdout lines that, once trimmed, begin with '{'
Candidates == { i \in 1..Len(outLines) : outLines[i].utf8 /\ outLines[i].brace }
HasCandidate == Candidates # {}
FirstCandidate ==
  outLines[CHOOSE i \in Candidates : \A j \in Candidates : i <= j]
\* a line that is a {port, serverKey} object with a 16 bit port
ValidHandshake(l) ==
  l.wellFormed /\ l.hasPort /\ l.hasKey /\ l.port >= 0 /\ l.port <= MaxPort
Returned == callerPc = "returned"
Spawned == outTask # "unspawned"
SentInTime == sentAt # -1 /\ sentAt < TimeoutMs
BadHandshakeFailure == Failure("Failed to read startup info from plugin")

\* C1: when the first stdout line that begins with '{' is a valid handshake
\* and reaches the channel before the 500 ms wait expires, new() returns a
\* handle whose port() is the announced port and whose process id is the
\* child's, whatever free-form stdout lines precede it and whatever the
\* child writes to stderr.
C1_HandshakeSuccess ==
  (Returned /\ HasCandidate /\ ValidHandshake(FirstCandidate) /\ SentInTime)
    => /\ result.kind = "handle"
       /\ port(result) = FirstCandidate.port
       /\ result.child_pid = childPid

C1_Witness ==
  /\ Returned
  /\ result.kind = "handle"
  /\ port(result) = 4000
  /\ SentInTime
  /\ Len(outLines) = 2
  /\ outLines[1] = TextLine
  /\ errPos > 0

\* C2: when no stdout line beginning with '{' is processed up to the end of
\* the 500 ms wait, new() returns the timeout error and no handle; the
\* caller is never in the wait after the deadline, and at the deadline it
\* can return whatever the state of the streams and of the drain tasks.
C2_HandshakeTimeout ==
  /\ (Returned /\ Spawned /\ (sentAt = -1 \/ sentAt > TimeoutMs))
       => result = TimeoutFailure
  /\ (callerPc = "recv" => now <= TimeoutMs)
  /\ (callerPc = "recv" /\ now >= TimeoutMs)
       => ENABLED (RecvMessage \/ RecvTimeout \/ RecvDisconnected)

C2_Witness ==
  /\ Returned
  /\ result = TimeoutFailure
  /\ now = TimeoutMs
  /\ sentAt = -1
  /\ childAlive
  /\ outTask = "running"
  /\ errTask = "running"

\* C3: the stdout drain task sends at most one message over its life, for
\* the first line that begins with '{'.  If that line does not parse new()
\* never returns a handle, and returns the bad-handshake error whenever the
\* message reached the channel in time, even if a later line is a valid
\* handshake; a returned handle always carries the first such line's info.
C3_FirstCandidateOnly ==
  /\ sends <= 1
  /\ Len(chan) <= 1
  /\ (Returned /\ HasCandidate /\ ~ValidHandshake(FirstCandidate))
       => /\ result.kind # "handle"
          /\ (SentInTime => result = BadHandshakeFailure)
  /\ (Returned /\ result.kind = "handle")
       => /\ HasCandidate
          /\ ValidHandshake(FirstCandidate)
          /\ result.plugin_info = [port |-> FirstCandidate.port,
                                   server_key |-> FirstCandidate.key]

C3_Witness ==
  /\ Returned
  /\ result = BadHandshakeFailure
  /\ Len(outLines) = 2
  /\ outPos = 2
  /\ ValidHandshake(outLines[2])
  /\ sends = 1

\* C4: a kill() call leaves the handle as it is and always returns; it
\* delivers a termination signal only to the stored process id and only
\* when the process table holds that id at the call, and delivers none when
\* it does not (the child has exited), however often it is called.
C4_KillBestEffort ==
  [][killCalls' # killCalls =>
       /\ killCalls' = killCalls + 1
       /\ result' = result
       /\ \A p \in Pids :
            signalled'[p] # signalled[p] =>
              /\ p = result.child_pid
              /\ p \in procTable
              /\ signalled'[p] = signalled[p] + 1
       /\ (result.child_pid \in procTable => signalled'[result.child_pid] # signalled[result.child_pid])
       /\ (result.child_pid \notin procTable => signalled' = signalled)]_vars

C4_Witness ==
  /\ killCalls = MaxKills
  /\ ~childAlive
  /\ childPid \notin procTable
  /\ signalled[childPid] = 0

Failed == Returned /\ result.kind = "error"
TimedOut == Returned /\ Spawned /\ result = TimeoutFailure

\* C11: the return of new() leaves both drain tasks as they are.  After a
\* timeout error the result never changes, so no handle is produced for
\* that child; a first line beginning with '{' that the stdout drain task
\* reads then is taken as the one handshake candidate, its send to the
\* dropped receiver puts nothing in the channel and leaves the task
\* running; each drain task can read every remaining line of its stream,
\* ends only when its stream is closed and all of it is read, and can end
\* then.  After any failed new() no termination signal has been sent and
\* kill() has not been called.
C11_LateHandshake ==
  /\ [](Failed => /\ killCalls = 0
                  /\ \A p \in Pids : signalled[p] = 0)
  /\ []((TimedOut /\ outTask = "running" /\ outPos < Len(outLines))
          => ENABLED StdoutTaskLine)
  /\ []((TimedOut /\ outTask = "running" /\ outPos = Len(outLines) /\ ~childAlive)
          => ENABLED StdoutTaskEnd)
  /\ []((TimedOut /\ errTask = "running" /\ errPos < errLines)
          => ENABLED StderrTaskLine)
  /\ []((TimedOut /\ errTask = "running" /\ errPos = errLines /\ ~childAlive)
          => ENABLED StderrTaskEnd)
  /\ [][(callerPc = "recv" /\ callerPc' = "returned")
          => (outTask' = outTask /\ errTask' = errTask)]_vars
  /\ [][Failed => (result' = result /\ callerPc' = callerPc)]_vars
  /\ [][(TimedOut /\ sends' # sends)
          => /\ sends = 0 /\ sends' = 1
             /\ ~startup_read /\ startup_read'
             /\ outLines[outPos'] = FirstCandidate
             /\ chan = <<>> /\ chan' = <<>>
             /\ outTask = "running" /\ outTask' = "running"
             /\ errTask' = errTask]_vars
  /\ [][(TimedOut /\ outTask' # outTask)
          => /\ outTask = "running" /\ outTask' = "ended"
             /\ ~childAlive /\ outPos = Len(outLines)]_vars
  /\ [][(TimedOut /\ errTask' # errTask)
          => /\ errTask = "running" /\ errTask' = "ended"
             /\ ~childAlive /\ errPos = errLines]_vars

C11_Witness ==
  /\ TimedOut
  /\ now > TimeoutMs
  /\ sends = 1
  /\ sentAt >= TimeoutMs
  /\ startup_read
  /\ chan = <<>>
  /\ ValidHandshake(FirstCandidate)
  /\ outPos = Len(outLines)
  /\ errLines > 0
  /\ errPos = errLines
  /\ outTask = "ended"
  /\ errTask = "ended"
  /\ \A p \in Pids : signalled[p] = 0

(***************************************************************************)
(* Properties of compareContents.                                          *)
(***************************************************************************)
CmpBothPresent == cmpRequest.expected.some /\ cmpRequest.actual.some
CmpAnswered == cmpResponse.kind = "ok"
CmpTemplate == cmpRequest.expected.value[1]
CmpRows == cmpRequest.actual.value
CmpResults == cmpResponse.value
\* the column-count mismatches of a result list
ColumnCountMismatches(results, expected_len, actual_len) ==
  { k \in 1..Len(results) :
      /\ results[k].path = <<>>
      /\ results[k].expected = Some(<<expected_len, "columns">>)
      /\ results[k].actual = Some(<<actual_len, "columns">>) }

\* C5: with both bodies present, the answered mismatch list holds exactly
\* one column-count mismatch when the first actual record is shorter than
\* the template, or is longer and allowUnexpectedColumns is false, and none
\* when it is longer and allowUnexpectedColumns is true or the counts are
\* equal.
C5_ColumnCountPolicy ==
  (CmpBothPresent /\ CmpAnswered) =>
    LET expected_len == Len(CmpTemplate)
        actual_len == Len(CmpRows[1])
        count == Cardinality(ColumnCountMismatches(CmpResults, expected_len, actual_len))
        pathless == Cardinality({ k \in 1..Len(CmpResults) : CmpResults[k].path = <<>> })
    IN  /\ pathless = count
        /\ actual_len < expected_len => count = 1
        /\ (actual_len > expected_len /\ ~cmpRequest.allow_unexpected_keys) => count = 1
        /\ (actual_len > expected_len /\ cmpRequest.allow_unexpected_keys) => count = 0
        /\ actual_len = expected_len => count = 0

C5_Witness ==
  /\ CmpBothPresent
  /\ CmpAnswered
  /\ Len(CmpRows[1]) > Len(CmpTemplate)
  /\ cmpRequest.allow_unexpected_keys
  /\ Len(CmpRows) = 2
  /\ \A k \in 1..Len(CmpResults) : CmpResults[k].path # <<>>

\* the template value the claim gives column i
TemplateValue(i) == IF i < Len(CmpTemplate) THEN CmpTemplate[i + 1] ELSE ""
\* the number of mismatches the claim gives the field at column i of row r
ClaimedMismatches(r, i) ==
  LET item == CmpRows[r][i + 1]
      path == column_path(i)
  IN  IF path \in DOMAIN cmpRequest.rules
      THEN Cardinality({ j \in 1..Len(cmpRequest.rules[path]) :
                           rule_fails(TemplateValue(i), item,
                                      cmpRequest.rules[path][j].type) })
      ELSE IF item # TemplateValue(i) THEN 1 ELSE 0

\* C6: in an answered comparison every actual record, the first and the
\* later ones, is compared with the one template record, with or without a
\* column-count mismatch: the field at column i of record r yields one
\* mismatch per failing rule of the list registered for column:i, or, with
\* no list registered, one mismatch exactly when it differs from the
\* template's field i (the empty string beyond the template's length); every
\* such mismatch carries that template value and the field, and no mismatch
\* is reported for a column the actual record does not have.
C6_SchemaRowComparison ==
  (CmpBothPresent /\ CmpAnswered) =>
    /\ \A r \in 1..Len(CmpRows) : \A i \in 0..(Len(CmpRows[r]) - 1) :
         LET at == { k \in 1..Len(CmpResults) :
                       CmpResults[k].path = <<"row", r, "column", i>> }
         IN  /\ Cardinality(at) = ClaimedMismatches(r, i)
             /\ \A k \in at : /\ CmpResults[k].expected = Some(TemplateValue(i))
                              /\ CmpResults[k].actual = Some(CmpRows[r][i + 1])
    /\ \A k \in 1..Len(CmpResults) :
         \/ CmpResults[k].path = <<>>
         \/ \E r \in 1..Len(CmpRows) : \E i \in 0..(Len(CmpRows[r]) - 1) :
              CmpResults[k].path = <<"row", r, "column", i>>

C6_Witness ==
  /\ CmpBothPresent
  /\ CmpAnswered
  /\ Len(cmpRequest.expected.value) = 2
  /\ Len(CmpRows) = 2
  /\ Len(CmpRows[1]) > Len(CmpTemplate)
  /\ CmpResults[1].path = <<>>
  /\ CmpRows[1] # CmpRows[2]
  /\ Path0 \in DOMAIN cmpRequest.rules
  /\ \E k \in 1..Len(CmpResults) : CmpResults[k].path = <<"row", 2, "column", 1>>
  /\ \E k \in 1..Len(CmpResults) : CmpResults[k].path = <<"row", 2, "column", 0>>
  /\ \A k \in 1..Len(CmpResults) : CmpResults[k].path # <<"row", 1, "column", 0>>

\* C9: with both bodies present and a wire rule of a type the registry does
\* not know, compareContents ends as a failed call (an error status), not
\* as a crash of the handler and not with a mismatch list.
C9_UnknownRuleTypeFails ==
  (/\ cmpResponse # NoResponse
   /\ CmpBothPresent
   /\ \E path \in DOMAIN cmpRequest.rules :
        \E j \in 1..Len(cmpRequest.rules[path]) :
          cmpRequest.rules[path][j].type \notin KnownRuleTypes)
    => cmpResponse.kind = "aborted"

(***************************************************************************)
(* Properties of value marshalling.                                        *)
(***************************************************************************)
Decoded == decoded # NoResponse

\* C8 as stated: a jsonValue encoded to the wire form and decoded back equals
\* the original, an integer such as 1 included.
C8_RoundTripEqual == Decoded => decoded = jsonValue

RECURSIVE IntegersAsFloats(_)
\* the jsonValue with every integer number replaced by the float of its jsonValue
IntegersAsFloats(val) ==
  CASE val.t = "number" ->
         IF val.n.repr = "Float" THEN val ELSE Number("Float", 2 * val.n.v)
    [] val.t = "array" ->
         Array([i \in 1..Len(val.items) |-> IntegersAsFloats(val.items[i])])
    [] val.t = "object" ->
         Object([k \in DOMAIN val.members |-> IntegersAsFloats(val.members[k])])
    [] OTHER -> val

\* C8 as amended: the round trip yields the original jsonValue with every
\* integer number replaced by the floating-point number of the same jsonValue;
\* an integer comes back as a float, which is not equal to it.
C8_RoundTripFloats ==
  Decoded =>
    /\ decoded = IntegersAsFloats(jsonValue)
    /\ (jsonValue.t = "number" /\ jsonValue.n.repr # "Float") => decoded # jsonValue

C8_Witness ==
  /\ Decoded
  /\ jsonValue = Object([k \in Keys |-> IF k = "x" THEN Number("PosInt", 1) ELSE String("s")])
  /\ decoded.members["x"] = Number("Float", 2)
  /\ decoded.members["y"] = String("s")

(***************************************************************************)
(* Properties of generateContent and configureContents.                    *)
(***************************************************************************)
GenAnswered == genResponse.kind = "ok"
GenInput == genRequest.contents.value
GenOutput == genResponse.value

\* C7: the body generateContent answers has the records of the input body,
\* in order and each with as many fields, and every field of a column for
\* which the request registers no generator equals the input field.
C7_UnconfiguredColumnsKept ==
  GenAnswered =>
    /\ Len(GenOutput) = Len(GenInput)
    /\ \A r \in 1..Len(GenInput) :
         /\ Len(GenOutput[r]) = Len(GenInput[r])
         /\ \A i \in 0..(Len(GenInput[r]) - 1) :
              column_path(i) \notin DOMAIN genRequest.generators
                => GenOutput[r][i + 1] = GenInput[r][i + 1]

C7_Witness ==
  /\ GenAnswered
  /\ DOMAIN genRequest.generators = {Path1}
  /\ Len(GenInput) = 2
  /\ GenInput[1] # GenInput[2]
  /\ \A r \in 1..2 : /\ Len(GenInput[r]) = 2
                     /\ GenOutput[r][1] = GenInput[r][1]
                     /\ GenOutput[r][2] = "generated"

\* the 1-based columns the configuration gives a generator
ConfiguredGenerators ==
  { key[2] : key \in { k \in DOMAIN cfgRequest.contents_config.value :
                         cfgRequest.contents_config.value[k].gen.some } }
\* the generators map of the request is the one configureContents returned
FedUnchanged ==
  /\ cfgResponse.kind = "ok"
  /\ genResponse # NoResponse
  /\ genRequest.generators = cfgResponse.value.generators

\* C10: the generator configured for the 1-based selector column:N is
\* returned under the key column:(N-1), and generateContent, given the
\* returned generators unchanged, succeeds and rewrites exactly the fields
\* of the columns configured with a generator, the first column included
\* (for generators that produce a value).
C10_ZeroBasedGeneratorKeys ==
  (/\ FedUnchanged
   /\ \A k \in DOMAIN cfgRequest.contents_config.value :
        cfgRequest.contents_config.value[k].gen \in {None, Some(UuidGenerator)})
    => /\ DOMAIN cfgResponse.value.generators =
            { column_path(n - 1) : n \in ConfiguredGenerators }
       /\ GenAnswered
       /\ \A r \in 1..Len(GenInput) : \A i \in 0..(Len(GenInput[r]) - 1) :
            IF (i + 1) \in ConfiguredGenerators
            THEN GenOutput[r][i + 1] = "generated"
            ELSE GenOutput[r][i + 1] = GenInput[r][i + 1]

(***************************************************************************)
(* Specifications.                                                         *)
(***************************************************************************)
\* no child process: the state of the supervisor while the plugin is studied
SupIdle ==
  /\ childPid = 11
  /\ hasStdout = FALSE
  /\ hasStderr = FALSE
  /\ outLines = <<>>
  /\ errLines = 0
  /\ outPos = 0
  /\ errPos = 0
  /\ childAlive = FALSE
  /\ procTable = {}
  /\ signalled = [p \in Pids |-> 0]
  /\ now = 0
  /\ callerPc = "idle"
  /\ result = NoResult
  /\ chan = <<>>
  /\ txAlive = FALSE
  /\ rxAlive = FALSE
  /\ outTask = "unspawned"
  /\ startup_read = FALSE
  /\ errTask = "unspawned"
  /\ sends = 0
  /\ sentAt = -1
  /\ killCalls = 0

PluginIdle == CmpIdle /\ MarIdle /\ CfgIdle /\ GenIdle

\* the process supervisor
Init == SupInit /\ PluginIdle
Next == SupNext
Spec == Init /\ [][Next]_vars

\* the compareContents verb
InitCompare == SupIdle /\ CompareInit /\ MarIdle /\ CfgIdle /\ GenIdle
NextCompare == CompareContents
SpecCompare == InitCompare /\ [][NextCompare]_vars

\* value marshalling
InitMarshal == SupIdle /\ CmpIdle /\ MarshalInit /\ CfgIdle /\ GenIdle
NextMarshal == ToValue \/ FromValue
SpecMarshal == InitMarshal /\ [][NextMarshal]_vars

\* the generateContent verb
InitGenerate == SupIdle /\ CmpIdle /\ MarIdle /\ CfgIdle /\ GenerateInit
NextGenerate == GenerateContent
SpecGenerate == InitGenerate /\ [][NextGenerate]_vars

\* configureContents, and generateContent on what it returned
InitConfigure == SupIdle /\ CmpIdle /\ MarIdle /\ ConfigureInit /\ GenIdle
NextConfigure == ConfigureContents \/ GenerateConfigured
SpecConfigure == InitConfigure /\ [][NextConfigure]_vars

====
